---- MODULE Spec2Model ----
(***************************************************************************)
(* edda: a terminal client for a packet-radio mesh.                        *)
(*                                                                         *)
(* Two workers joined by two bounded channels:                             *)
(*   - the session loop  App::run        (src/src/tui.rs)                  *)
(*   - the radio worker  run_meshtastic  (src/src/mesh.rs) with its        *)
(*     Router                            (src/src/router.rs)               *)
(*                                                                         *)
(* Option<T> is modelled as a sequence: None is << >>, Some(x) is <<x>>.   *)
(* A String is a sequence of chars; its len() is the sum of the chars'     *)
(* UTF-8 widths.                                                           *)
(***************************************************************************)
EXTENDS Naturals, Integers, Sequences, FiniteSets, TLC

\* ------------------------------------------------------------------ bounds
\* Peers announced by the real transport carry identifiers 1..MaxNodeId.
MaxNodeId == 2
\* Capacity of the MeshEvent channel (mpsc::channel(100) in the program).
MeshCapacity == 2
\* Capacity of the UiEvent channel.
UiCapacity == 1
\* The input limit of tui.rs:149/158 (237 bytes in the program), scaled.
MaxInputBytes == 2
\* Cap on the number of messages the operator gets queued for sending.
MaxSends == 1
\* Cap on the number of frames / timer ticks the radio worker sees.
MaxFrames == 2
\* Tab keys in a row are counted up to this number; beyond it, and after a
\* BackTab, the count stays there.
TabsCounted == 7

\* ------------------------------------------------------------- Option<T>
None == << >>
Some(x) == <<x>>
IsSome(o) == o # << >>
Unwrap(o) == o[1]

\* ------------------------------------------------------------ characters
\* The characters a KeyCode::Char carries into the input buffer: an ASCII
\* letter, the space, and "U+00E9", the two-byte character e-acute.
Chars == {"q", " ", "U+00E9"}

\* char::len_utf8
Utf8Len(c) == IF c = "U+00E9" THEN 2 ELSE 1

\* char::is_whitespace
IsWhitespace(c) == c = " "

\* String::len: the length in bytes
RECURSIVE ByteLen(_)
ByteLen(s) == IF s = << >> THEN 0 ELSE Utf8Len(Head(s)) + ByteLen(Tail(s))

\* str::trim_start
RECURSIVE TrimStart(_)
TrimStart(s) ==
    IF s = << >> THEN s
    ELSE IF IsWhitespace(Head(s)) THEN TrimStart(Tail(s)) ELSE s

\* str::trim_end
RECURSIVE TrimEnd(_)
TrimEnd(s) ==
    IF s = << >> THEN s
    ELSE IF IsWhitespace(s[Len(s)]) THEN TrimEnd(SubSeq(s, 1, Len(s) - 1)) ELSE s

TrimStartOnly(s) == TrimStart(s)

\* str::trim, as used by self.input.trim()
Trim(s) == TrimEnd(TrimStart(s))

\* String::pop: removes the last char, if any
Pop(s) == IF s = << >> THEN s ELSE SubSeq(s, 1, Len(s) - 1)

\* ------------------------------------------------------------ data model
NoUser == None
Users == {NoUser, Some("Alice")}
NodeIds == 1..MaxNodeId

\* meshtastic::protobufs::NodeInfo, reduced to the fields the program reads
NodeInfo(n, u) == [num |-> n, user |-> u]

\* mock_node / mock_user of run_mock_meshtastic (num stands for 0x12345678)
MockNodeNum == 305419896
mock_node == NodeInfo(MockNodeNum, Some("Mock User"))
HelloText == <<"Hello from mock user!">>

\* types.rs: MeshEvent
NodeAvailable(info) == [type |-> "NodeAvailable", node_info |-> info]
MeshMessage(id, text) == [type |-> "Message", node_id |-> id, message |-> text]

\* types.rs: UiEvent
UiMessage(id, text) == [type |-> "Message", node_id |-> id, message |-> text]

\* usize::MAX (the largest integer of the model checker stands for 2^64 - 1)
USIZE_MAX == 2147483647
SaturatingAdd1(i) == IF i = USIZE_MAX THEN i ELSE i + 1
WrappingSub1(i) == IF i = 0 THEN USIZE_MAX ELSE i - 1
SaturatingSub1(i) == IF i = 0 THEN 0 ELSE i - 1

\* ------------------------------------------------------------- HashMap
EmptyMap == [k \in {} |-> k]

InsertAtEnd(m, k, v) ==
    LET slot == Cardinality(DOMAIN m) + 1
    IN  [x \in (DOMAIN m) \cup {slot} |-> IF x = slot THEN v ELSE m[x]]

\* HashMap::insert: the value stored under key k is replaced or created
Insert(m, k, v) == [x \in (DOMAIN m) \cup {k} |-> IF x = k THEN v ELSE m[x]]

\* store.rs: InMemoryStore::upsert_node
upsert_node(data, node_info) == Insert(data, node_info.num, node_info)

\* HashMap::values().collect(): the values in the map's own iteration order,
\* which is unrelated to the order of the keys (here: descending keys).
RECURSIVE Values(_)
Values(m) ==
    IF DOMAIN m = {} THEN << >>
    ELSE LET k == CHOOSE x \in DOMAIN m : \A y \in DOMAIN m : y <= x
         IN  <<m[k]>> \o Values([x \in (DOMAIN m) \ {k} |-> m[x]])

\* one step of the stable sort: n goes after the last element whose num <= n.num
RECURSIVE InsertSorted(_, _)
InsertSorted(sorted, n) ==
    IF sorted = << >> THEN <<n>>
    ELSE IF sorted[Len(sorted)].num <= n.num THEN Append(sorted, n)
    ELSE Append(InsertSorted(SubSeq(sorted, 1, Len(sorted) - 1), n), sorted[Len(sorted)])

SortSkipped(v) == v

\* Vec::sort_by_key(|n| n.num)
RECURSIVE SortByNum(_)
SortByNum(v) ==
    IF v = << >> THEN << >>
    ELSE InsertSorted(SortByNum(SubSeq(v, 1, Len(v) - 1)), v[Len(v)])

\* tui.rs: App::get_sorted_nodes
get_sorted_nodes(nodes_) == SortByNum(Values(nodes_))

NodeAtUnsorted(nodes_, sel) ==
    IF IsSome(sel) /\ Unwrap(sel) < Len(Values(nodes_))
    THEN Some(Values(nodes_)[Unwrap(sel) + 1])
    ELSE None

\* nodes.get(selected_index) on the sorted view: the peer the cursor resolves to
NodeAt(nodes_, sel) ==
    IF IsSome(sel) /\ Unwrap(sel) < Len(get_sorted_nodes(nodes_))
    THEN Some(get_sorted_nodes(nodes_)[Unwrap(sel) + 1])
    ELSE None

\* ------------------------------------------------------------ variables
VARIABLES
    \* App (tui.rs:21-32)
    nodes,                  \* HashMap<u32, NodeInfo>
    input,                  \* String
    focus,                  \* Option<Focus>
    selected,               \* node_list_state.selected(): Option<usize>
    current_contact,        \* Option<NodeInfo>
    state,                  \* AppState
    current_conversation,   \* Vec<String>
    pc,                     \* position of App::run in its loop
    \* the two channels
    mesh_chan,              \* MeshEvents in flight: Router/mock -> App.receiver
    ui_chan,                \* UiEvents in flight: App.transmitter -> worker rx
    \* radio worker (mesh.rs) and its Router (router.rs)
    mode,                   \* "real" or "mock": the process argument
    radio,                  \* position of the radio worker
    node_num,               \* Router.node_num: Option<NodeId>
    user,                   \* Router.user: Option<User>
    pending,                \* the MeshEvent a blocked tx.send(..).await holds
    frames,                 \* frames and timer ticks seen so far
    stream,                 \* the transport's frame stream: "open" or "ended"
    lastFrame,              \* history: the frame the Router handled last
    \* history (not program state)
    lastOp,                 \* the branch the session's last step took
    sends,                  \* messages the operator got queued for sending
    received,               \* identifiers of the NodeAvailable events applied
    lastEvent,              \* the event the running update applied last
    lastNav,                \* the navigation key handled last, and the cursor
                            \* it found: kept until the next tick update
    tabs,                   \* Tab keys handled in a row since the focus was
                            \* None, counted up to TabsCounted
    tickQueue,              \* the inbound channel as the running update found it
    applied                 \* the events the running update has applied

app_vars == <<nodes, input, focus, selected, current_contact, state,
              current_conversation, pc>>
chan_vars == <<mesh_chan, ui_chan>>
radio_vars == <<mode, radio, node_num, user, pending, frames, stream, lastFrame>>
tick_vars == <<tickQueue, applied>>
hist_vars == <<received, lastEvent, lastNav, tabs, tick_vars>>
vars == <<app_vars, chan_vars, radio_vars, hist_vars, lastOp, sends>>

\* The receiving half of a channel is gone once its owner has ended.
AppGone == pc \in {"done", "panicked"}
RadioGone == radio \in {"ended", "failed", "panicked"}

\* tokio mpsc Sender::try_send: Ok iff the receiver lives and a slot is free
CanSend(chan, capacity, receiverGone) == ~receiverGone /\ Len(chan) < capacity

\* the channel after try_send(event): the event is queued, or dropped on Err
TrySend(chan, capacity, receiverGone, event) ==
    IF CanSend(chan, capacity, receiverGone) THEN Append(chan, event) ELSE chan

\* ------------------------------------------------------------------ Init
\* App::new, Router::new and the start of run_meshtastic
Init ==
    /\ nodes = EmptyMap
    /\ input = << >>
    /\ focus = None
    /\ selected = None
    /\ current_contact = None
    /\ state = "Loading"
    /\ current_conversation = << >>
    /\ pc = "draw"
    /\ mesh_chan = << >>
    /\ ui_chan = << >>
    /\ mode \in {"real", "mock"}
    /\ radio = IF mode = "mock" THEN "mock_start" ELSE "running"
    /\ node_num = None
    /\ user = None
    /\ pending = None
    /\ frames = 0
    /\ stream = IF mode = "mock" THEN "none" ELSE "open"
    /\ lastOp = "init"
    /\ sends = 0
    /\ received = {}
    /\ lastEvent = None
    /\ lastNav = None
    /\ tabs = 0
    /\ tickQueue = << >>
    /\ applied = << >>
    /\ lastFrame = None

\* ------------------------------------------------- session: redraw (tui.rs)
ListRenderKeeps(n_items, sel) == sel

\* The List widget's render, as far as it writes node_list_state: an empty
\* list unsets the cursor, a cursor past the end moves to the last item.
ListRender(n_items, sel) ==
    IF n_items = 0 THEN None
    ELSE IF IsSome(sel) /\ Unwrap(sel) >= n_items THEN Some(n_items - 1)
    ELSE sel

\* App::draw panics where it unwraps the current contact's user (tui.rs:216)
DrawPanics ==
    /\ state # "Loading"
    /\ IsSome(current_contact)
    /\ ~IsSome(Unwrap(current_contact).user)

\* terminal.draw(|frame| self.draw(frame)) at the top of the loop
Draw ==
    /\ UNCHANGED sends
    /\ pc = "draw"
    /\ IF DrawPanics
       THEN /\ pc' = "panicked"
            /\ lastOp' = "draw:panic"
            /\ UNCHANGED <<selected, tickQueue>>
       ELSE /\ pc' = "update"
            /\ lastOp' = "draw"
            /\ selected' = IF state = "Loading" THEN selected
                           ELSE ListRender(Len(get_sorted_nodes(nodes)), selected)
            /\ tickQueue' = mesh_chan
    /\ UNCHANGED <<nodes, input, focus, current_contact, state,
                   current_conversation, chan_vars, radio_vars,
                   received, lastEvent, lastNav, tabs, applied>>

\* ------------------------------------------- session: tick update (tui.rs)
\* the fields of App that update writes
UpdateState ==
    [nodes |-> nodes, selected |-> selected, state |-> state,
     conversation |-> current_conversation]

\* ApplyEvent without the select(Some(0)) of the first peer
ApplyEventKeepsCursor(st, event) ==
    IF event.type = "NodeAvailable"
    THEN [st EXCEPT
                !.nodes = Insert(st.nodes, event.node_info.num, event.node_info),
                !.state = "Loaded"]
    ELSE [st EXCEPT
                !.conversation = Append(st.conversation, event.message)]

\* the body of the while-let loop of App::update: the match on one event
ApplyEvent(st, event) ==
    IF event.type = "NodeAvailable"
    THEN LET is_empty == DOMAIN st.nodes = {}
         IN  [st EXCEPT
                !.nodes = Insert(st.nodes, event.node_info.num, event.node_info),
                !.selected = IF is_empty THEN Some(0) ELSE st.selected,
                !.state = "Loaded"]
    ELSE [st EXCEPT
                !.conversation = Append(st.conversation, event.message)]

\* what the step of update that applied `event` is remembered as
UpdateTag(event) ==
    IF event.type # "NodeAvailable" THEN "update:message"
    ELSE IF DOMAIN nodes = {} THEN "update:first_peer"
    ELSE IF lastEvent = Some(event) THEN "update:same_peer_again"
    ELSE "update:peer"

\* App::update, one turn of `while let Ok(event) = self.receiver.try_recv()`:
\* the oldest queued event is taken and applied
UpdateRecv ==
    /\ pc = "update"
    /\ mesh_chan # << >>
    /\ LET event == Head(mesh_chan)
           st == ApplyEvent(UpdateState, event)
       IN  /\ nodes' = st.nodes
           /\ selected' = st.selected
           /\ state' = st.state
           /\ current_conversation' = st.conversation
           /\ received' = IF event.type = "NodeAvailable"
                          THEN received \cup {event.node_info.num} ELSE received
           /\ lastEvent' = Some(event)
           /\ lastNav' = None
           /\ applied' = Append(applied, event)
           /\ lastOp' = UpdateTag(event)
    /\ mesh_chan' = Tail(mesh_chan)
    /\ UNCHANGED <<pc, input, focus, current_contact, ui_chan, radio_vars, sends,
                   tabs, tickQueue>>

UpdateDoneAfterOne ==
    /\ pc = "update"
    /\ mesh_chan = << >> \/ applied # << >>
    /\ state' = "Loaded"
    /\ pc' = "poll"
    /\ lastOp' = "update:done"
    /\ lastEvent' = None
    /\ lastNav' = None
    /\ tickQueue' = << >>
    /\ applied' = << >>
    /\ UNCHANGED <<nodes, input, focus, selected, current_contact,
                   current_conversation, chan_vars, radio_vars, received, sends,
                   tabs>>

\* App::update: try_recv finds no event, the loop ends, self.state = Loaded
UpdateDone ==
    /\ pc = "update"
    /\ mesh_chan = << >>
    /\ state' = "Loaded"
    /\ pc' = "poll"
    /\ lastOp' = "update:done"
    /\ lastEvent' = None
    /\ lastNav' = None
    /\ tickQueue' = << >>
    /\ applied' = << >>
    /\ UNCHANGED <<nodes, input, focus, selected, current_contact,
                   current_conversation, chan_vars, radio_vars, received, sends,
                   tabs>>

\* --------------------------------------------- session: key events (tui.rs)
\* what a handled key leaves alone unless the handler says otherwise
KeyLoops(tag, nav, t) ==
    /\ pc' = "draw"
    /\ lastOp' = tag
    /\ lastNav' = nav
    /\ tabs' = t
    /\ UNCHANGED <<state, mesh_chan, radio_vars, received, lastEvent, tick_vars>>

KeyEnds(tag, nav) == KeyLoops(tag, nav, tabs)

KeyDone(tag) == KeyEnds(tag, None)

\* a key is handed to the match at tui.rs:92 only once the state is Loaded
KeyHandled == pc = "poll" /\ state # "Loading"

\* event::poll(timeout) ran out, or the event was no key event
NoKey ==
    /\ UNCHANGED sends
    /\ pc = "poll"
    /\ KeyDone("key")
    /\ UNCHANGED <<nodes, input, focus, selected, current_contact,
                   current_conversation, ui_chan>>

KeyEscKeepsInput ==
    /\ UNCHANGED sends
    /\ KeyHandled
    /\ focus' = IF focus = Some("Input") THEN focus ELSE None
    /\ KeyLoops("key:esc", None, 0)
    /\ UNCHANGED <<nodes, input, selected, current_contact,
                   current_conversation, ui_chan>>

\* KeyCode::Esc
KeyEsc ==
    /\ UNCHANGED sends
    /\ KeyHandled
    /\ focus' = None
    /\ KeyLoops("key:esc", None, 0)
    /\ UNCHANGED <<nodes, input, selected, current_contact,
                   current_conversation, ui_chan>>

TabTargetWithSearch(f) ==
    IF f = None THEN Some("NodeList")
    ELSE IF f = Some("NodeList") THEN Some("Conversation")
    ELSE IF f = Some("Conversation") THEN Some("Input")
    ELSE IF f = Some("Input") THEN Some("Search")
    ELSE Some("NodeList")

\* the match of the KeyCode::Tab arm
TabTarget(f) ==
    IF f = None THEN Some("NodeList")
    ELSE IF f = Some("NodeList") THEN Some("Conversation")
    ELSE IF f = Some("Conversation") THEN Some("Input")
    ELSE Some("NodeList")

BackTabTargetLikeTab(f) ==
    IF f = None THEN Some("NodeList")
    ELSE IF f = Some("NodeList") THEN Some("Conversation")
    ELSE IF f = Some("Conversation") THEN Some("Input")
    ELSE Some("NodeList")

\* the match of the KeyCode::BackTab arm
BackTabTarget(f) ==
    IF f = None THEN Some("NodeList")
    ELSE IF f = Some("NodeList") THEN Some("Input")
    ELSE IF f = Some("Input") THEN Some("Conversation")
    ELSE Some("NodeList")

\* KeyCode::Tab
KeyTab ==
    /\ UNCHANGED sends
    /\ KeyHandled
    /\ focus' = TabTarget(focus)
    /\ KeyLoops("key:tab", None, IF tabs < TabsCounted THEN tabs + 1 ELSE tabs)
    /\ UNCHANGED <<nodes, input, selected, current_contact,
                   current_conversation, ui_chan>>

\* KeyCode::BackTab
KeyBackTab ==
    /\ UNCHANGED sends
    /\ KeyHandled
    /\ focus' = BackTabTarget(focus)
    /\ KeyLoops("key:backtab", None, TabsCounted)
    /\ UNCHANGED <<nodes, input, selected, current_contact,
                   current_conversation, ui_chan>>

\* main.rs: App::next_node, on a directory of n peers
next_node(n, sel) ==
    IF n = 0 THEN sel
    ELSE Some(IF IsSome(sel)
              THEN (IF Unwrap(sel) < n - 1 THEN Unwrap(sel) + 1 ELSE Unwrap(sel))
              ELSE 0)

\* main.rs: App::previous_node, on a directory of n peers
previous_node(n, sel) ==
    IF n = 0 THEN sel
    ELSE Some(IF IsSome(sel)
              THEN (IF Unwrap(sel) > 0 THEN Unwrap(sel) - 1 ELSE Unwrap(sel))
              ELSE 0)

\* ListState::select_next
select_next(sel) == Some(IF IsSome(sel) THEN SaturatingAdd1(Unwrap(sel)) ELSE 0)

\* ListState::select_previous
select_previous(sel) ==
    Some(IF IsSome(sel) THEN SaturatingSub1(Unwrap(sel)) ELSE USIZE_MAX)

\* Focus::NodeList, KeyCode::Char('j') | KeyCode::Down
NodeListNext ==
    /\ UNCHANGED sends
    /\ KeyHandled
    /\ focus = Some("NodeList")
    /\ selected' = select_next(selected)
    /\ KeyEnds("key", Some([key |-> "next", from |-> selected]))
    /\ UNCHANGED <<nodes, input, focus, current_contact,
                   current_conversation, ui_chan>>

\* Focus::NodeList, KeyCode::Char('k') | KeyCode::Up
NodeListPrevious ==
    /\ UNCHANGED sends
    /\ KeyHandled
    /\ focus = Some("NodeList")
    /\ selected' = select_previous(selected)
    /\ KeyEnds("key", Some([key |-> "previous", from |-> selected]))
    /\ UNCHANGED <<nodes, input, focus, current_contact,
                   current_conversation, ui_chan>>

\* Focus::NodeList, KeyCode::Enter
NodeListEnter ==
    /\ UNCHANGED sends
    /\ KeyHandled
    /\ focus = Some("NodeList")
    /\ current_contact' = IF IsSome(NodeAt(nodes, selected))
                          THEN NodeAt(nodes, selected)
                          ELSE current_contact
    /\ KeyDone("nodelist:enter")
    /\ UNCHANGED <<nodes, input, focus, selected, current_conversation, ui_chan>>

InputAcceptsAtLimit(buf) == ByteLen(buf) <= MaxInputBytes

\* "Only add character if we're under 237 bytes": self.input.len() < 237
InputAccepts(buf) == ByteLen(buf) < MaxInputBytes

\* Focus::Input, KeyCode::Char(c)
InputChar(c) ==
    /\ UNCHANGED sends
    /\ KeyHandled
    /\ focus = Some("Input")
    /\ IF InputAccepts(input)
       THEN input' = Append(input, c) /\ KeyDone("input:char")
       ELSE input' = input /\ KeyDone("input:char:rejected")
    /\ UNCHANGED <<nodes, focus, selected, current_contact,
                   current_conversation, ui_chan>>

InputBackspaceAnyFocus ==
    /\ UNCHANGED sends
    /\ KeyHandled
    /\ input' = Pop(input)
    /\ KeyDone("key")
    /\ UNCHANGED <<nodes, focus, selected, current_contact,
                   current_conversation, ui_chan>>

\* Focus::Input, KeyCode::Backspace
InputBackspace ==
    /\ UNCHANGED sends
    /\ KeyHandled
    /\ focus = Some("Input")
    /\ input' = Pop(input)
    /\ KeyDone("key")
    /\ UNCHANGED <<nodes, focus, selected, current_contact,
                   current_conversation, ui_chan>>

EchoAlways(log, text, sent) == Append(log, text)

\* the conversation log after the try_send of a commit: the text is pushed
\* inside `if let Ok(_) = self.transmitter.try_send(..)`
Echo(log, text, sent) == IF sent THEN Append(log, text) ELSE log

\* Focus::Input, KeyCode::Enter
InputEnter ==
    /\ KeyHandled
    /\ focus = Some("Input")
    /\ LET trimmed == Trim(input)
           sent == CanSend(ui_chan, UiCapacity, RadioGone)
       IN  IF ~(ByteLen(trimmed) <= MaxInputBytes)
           THEN \* assert!(trimmed.len() <= 237) fails
                /\ pc' = "panicked"
                /\ lastOp' = "input:enter:assert"
                /\ UNCHANGED <<input, current_conversation, ui_chan, state,
                               mesh_chan, radio_vars, hist_vars, sends>>
           ELSE /\ IF trimmed # << >> /\ IsSome(current_contact)
                   THEN /\ sent => sends < MaxSends
                        /\ sends' = IF sent THEN sends + 1 ELSE sends
                        /\ ui_chan' = TrySend(ui_chan, UiCapacity, RadioGone,
                                UiMessage(Unwrap(current_contact).num, trimmed))
                        /\ current_conversation' =
                                Echo(current_conversation, trimmed, sent)
                        /\ KeyDone(IF sent THEN "input:enter:sent"
                                   ELSE "input:enter:dropped")
                   ELSE /\ UNCHANGED <<ui_chan, current_conversation, sends>>
                        /\ KeyDone(IF trimmed = << >> THEN "input:enter:blank"
                                   ELSE "input:enter:nocontact")
                /\ input' = << >>
    /\ UNCHANGED <<nodes, focus, selected, current_contact>>

QuitAnyFocus ==
    /\ UNCHANGED sends
    /\ pc = "poll"
    /\ pc' = "done"
    /\ lastOp' = "quit"
    /\ UNCHANGED <<nodes, input, focus, selected, current_contact, state,
                   current_conversation, chan_vars, radio_vars, hist_vars>>

\* KeyCode::Char('q') while the state is Loading or nothing is focused
Quit ==
    /\ UNCHANGED sends
    /\ pc = "poll"
    /\ state = "Loading" \/ focus = None
    /\ pc' = "done"
    /\ lastOp' = "quit"
    /\ UNCHANGED <<nodes, input, focus, selected, current_contact, state,
                   current_conversation, chan_vars, radio_vars, hist_vars>>

\* KeyCode::Char('q') with Focus::NodeList or Focus::Conversation: the key
\* falls into the `_ => {}` arm of the focus
QuitKeyIgnored ==
    /\ UNCHANGED sends
    /\ KeyHandled
    /\ focus \in {Some("NodeList"), Some("Conversation")}
    /\ KeyDone("key:q:ignored")
    /\ UNCHANGED <<nodes, input, focus, selected, current_contact,
                   current_conversation, ui_chan>>

\* every key that falls into a `_ => {}` arm, or into no arm at all; the
\* scrollbar position of Focus::Conversation is presentation state
IgnoredKey ==
    /\ UNCHANGED sends
    /\ pc = "poll"
    /\ KeyDone("key")
    /\ UNCHANGED <<nodes, input, focus, selected, current_contact,
                   current_conversation, ui_chan>>

\* ------------------------------------------------ Router (router.rs)
\* payload variants of FromRadio that the Router ignores
IgnoredVariants ==
    {"Config", "LogRecord", "ConfigCompleteId", "Rebooted",
     "ModuleConfig", "Channel", "QueueStatus", "XmodemPacket", "Metadata",
     "MqttClientProxyMessage", "FileInfo", "ClientNotification", "DeviceuiConfig"}

\* run_real_meshtastic: pkt_receiver.recv() yielded a frame for the Router
FrameArrives ==
    /\ mode = "real"
    /\ radio = "running"
    /\ stream = "open"
    /\ frames < MaxFrames
    /\ frames' = frames + 1

RadioDone ==
    UNCHANGED <<app_vars, hist_vars, lastOp, sends, mode, stream, pending>>

\* what is remembered of a handled frame: its variant, its payload and
\* whether try_send queued or dropped the event made from it
Handled(variant, payload, sent) ==
    Some([variant |-> variant, payload |-> payload, sent |-> sent])

\* handle_packet_from_radio, payload_variant = None
FrameNone ==
    /\ FrameArrives
    /\ radio' = "panicked"
    /\ lastFrame' = Handled("None", None, "none")
    /\ RadioDone
    /\ UNCHANGED <<node_num, user, chan_vars>>

\* text messages a mesh packet can carry
PacketTexts == {<<"q">>}

\* handle_packet_from_radio, PayloadVariant::Packet: a mesh packet, such as
\* a text message from node `from`; the arm is empty
FramePacket(from, text) ==
    /\ FrameArrives
    /\ lastFrame' = Handled("Packet", <<from, text>>, "none")
    /\ RadioDone
    /\ UNCHANGED <<radio, node_num, user, chan_vars>>

\* handle_packet_from_radio, PayloadVariant::MyInfo
FrameMyInfo(my_node_num) ==
    /\ FrameArrives
    /\ IF IsSome(node_num)
       THEN /\ radio' = "panicked"
            /\ RadioDone
            /\ UNCHANGED node_num
       ELSE /\ node_num' = Some(my_node_num)
            /\ RadioDone
            /\ UNCHANGED radio
    /\ lastFrame' = Handled("MyInfo", my_node_num, "none")
    /\ UNCHANGED <<user, chan_vars>>

FrameNodeInfoSkipsSelf(info) ==
    /\ FrameArrives
    /\ user' = IF IsSome(node_num) /\ Unwrap(node_num) = info.num
               THEN info.user ELSE user
    /\ mesh_chan' = IF IsSome(node_num) /\ Unwrap(node_num) = info.num
                    THEN mesh_chan
                    ELSE TrySend(mesh_chan, MeshCapacity, AppGone, NodeAvailable(info))
    /\ lastFrame' = Handled("NodeInfo", info,
                            IF CanSend(mesh_chan, MeshCapacity, AppGone)
                            THEN "queued" ELSE "dropped")
    /\ RadioDone
    /\ UNCHANGED <<radio, node_num, ui_chan>>

\* handle_packet_from_radio, PayloadVariant::NodeInfo
FrameNodeInfo(info) ==
    /\ FrameArrives
    /\ user' = IF IsSome(node_num) /\ Unwrap(node_num) = info.num
               THEN info.user ELSE user
    /\ mesh_chan' = TrySend(mesh_chan, MeshCapacity, AppGone, NodeAvailable(info))
    /\ lastFrame' = Handled("NodeInfo", info,
                            IF CanSend(mesh_chan, MeshCapacity, AppGone)
                            THEN "queued" ELSE "dropped")
    /\ RadioDone
    /\ UNCHANGED <<radio, node_num, ui_chan>>

FrameIgnoredForgets(variant) ==
    /\ FrameArrives
    /\ lastFrame' = Handled("ignored", None, "none")
    /\ node_num' = None
    /\ RadioDone
    /\ UNCHANGED <<radio, user, chan_vars>>

\* handle_packet_from_radio, the arms with an empty body
FrameIgnored(variant) ==
    /\ FrameArrives
    /\ lastFrame' = Handled("ignored", None, "none")
    /\ RadioDone
    /\ UNCHANGED <<radio, node_num, user, chan_vars>>

\* run_real_meshtastic: rx.recv() yielded a UiEvent and hands it to
\* Router::handle_ui_event, whose body is not among the sources: the step
\* modelled is the dequeue, which frees a slot of the outbound channel
RealRecvUi ==
    /\ mode = "real"
    /\ radio = "running"
    /\ ui_chan # << >>
    /\ ui_chan' = Tail(ui_chan)
    /\ RadioDone
    /\ UNCHANGED <<radio, node_num, user, frames, lastFrame, mesh_chan>>

\* the transport closes its stream: pkt_receiver.recv() yields None from now on
StreamEnds ==
    /\ mode = "real"
    /\ radio = "running"
    /\ stream = "open"
    /\ stream' = "ended"
    /\ UNCHANGED <<app_vars, hist_vars, lastOp, sends, chan_vars, mode, radio,
                   node_num, user, pending, frames, lastFrame>>

\* rx.recv() yields None: every sender is dropped and nothing is queued
UiSourceEnded == AppGone /\ ui_chan = << >>

\* run_real_meshtastic: both branches of the select! are disabled, the
\* `else` arm breaks out of the loop and the worker returns Ok(())
RealExit ==
    /\ mode = "real"
    /\ radio = "running"
    /\ stream = "ended"
    /\ UiSourceEnded
    /\ radio' = "ended"
    /\ UNCHANGED <<app_vars, hist_vars, lastOp, sends, chan_vars, mode,
                   node_num, user, pending, frames, stream, lastFrame>>

\* ------------------------------------------ run_mock_meshtastic (mesh.rs)
\* tx.send(event).await: waits for a free slot; Err once the receiver is gone
\* "Send the mock node immediately"
MockStart ==
    /\ radio = "mock_start"
    /\ IF AppGone
       THEN /\ radio' = "failed"
            /\ UNCHANGED mesh_chan
       ELSE /\ Len(mesh_chan) < MeshCapacity
            /\ mesh_chan' = Append(mesh_chan, NodeAvailable(mock_node))
            /\ radio' = "running"
    /\ UNCHANGED <<app_vars, hist_vars, lastOp, sends, mode, stream, node_num, user,
                   pending, frames, lastFrame, ui_chan>>

\* hello_interval.tick(): the hello message is built and its send begins
MockTick ==
    /\ mode = "mock"
    /\ radio = "running"
    /\ pending = None
    /\ frames < MaxFrames
    /\ frames' = frames + 1
    /\ pending' = Some([event |-> MeshMessage(MockNodeNum, HelloText), of |-> "hello"])
    /\ UNCHANGED <<app_vars, hist_vars, lastOp, sends, mode, stream, radio, node_num, user,
                   lastFrame, chan_vars>>

\* rx.recv() yielded a UiEvent: its echo is built and its send begins
MockRecvUi ==
    /\ mode = "mock"
    /\ radio = "running"
    /\ pending = None
    /\ ui_chan # << >>
    /\ ui_chan' = Tail(ui_chan)
    /\ pending' = Some([event |-> MeshMessage(Head(ui_chan).node_id, Head(ui_chan).message),
                        of |-> "echo"])
    /\ UNCHANGED <<app_vars, hist_vars, lastOp, sends, mode, stream, radio, node_num, user,
                   frames, lastFrame, mesh_chan>>

\* the pending tx.send(..).await completes
MockSend ==
    /\ mode = "mock"
    /\ radio = "running"
    /\ IsSome(pending)
    /\ IF AppGone
       THEN /\ radio' = IF Unwrap(pending).of = "hello" THEN "ended" ELSE radio
            /\ UNCHANGED mesh_chan
       ELSE /\ Len(mesh_chan) < MeshCapacity
            /\ mesh_chan' = Append(mesh_chan, Unwrap(pending).event)
            /\ UNCHANGED radio
    /\ pending' = None
    /\ UNCHANGED <<app_vars, hist_vars, lastOp, sends, mode, stream, node_num, user,
                   frames, lastFrame, ui_chan>>

\* ------------------------------------------------------------------ Next
\* App::run: the redraw, the tick update and the keys that do not edit text
SessionStep ==
    \/ Draw
    \/ UpdateRecv
    \/ UpdateDone
    \/ NoKey
    \/ KeyEsc
    \/ KeyTab
    \/ KeyBackTab
    \/ NodeListNext
    \/ NodeListPrevious
    \/ NodeListEnter
    \/ Quit
    \/ QuitKeyIgnored
    \/ IgnoredKey

\* App::run: the keys of Focus::Input
TypingStep ==
    \/ \E c \in Chars : InputChar(c)
    \/ InputBackspace
    \/ InputEnter

\* run_real_meshtastic: the frames of the transport
FrameStep ==
    \/ FrameNone
    \/ \E n \in NodeIds, t \in PacketTexts : FramePacket(n, t)
    \/ \E n \in NodeIds : FrameMyInfo(n)
    \/ \E n \in NodeIds, u \in Users : FrameNodeInfo(NodeInfo(n, u))
    \/ \E v \in IgnoredVariants : FrameIgnored(v)

\* run_mock_meshtastic, but for the UiEvents it receives
MockStep ==
    \/ MockStart
    \/ MockTick
    \/ MockSend

Next ==
    \/ SessionStep
    \/ TypingStep
    \/ FrameStep
    \/ RealRecvUi
    \/ StreamEnds
    \/ RealExit
    \/ MockStep
    \/ MockRecvUi

\* the whole program
Spec == Init /\ [][Next]_vars

\* The program while the operator types nothing: the directory, the cursor and
\* the focus with every frame the transport can deliver.
NextPeers ==
    \/ SessionStep
    \/ FrameStep
    \/ MockStep

SpecPeers == Init /\ [][NextPeers]_vars

\* The program on the real transport while it announces one peer, or fails:
\* the input buffer, the commit and the outbound channel with every key.
Alice == NodeInfo(1, Some("Alice"))

InitReal == Init /\ mode = "real"

NextTyping ==
    \/ SessionStep
    \/ TypingStep
    \/ FrameNone
    \/ FrameNodeInfo(Alice)
    \/ RealRecvUi

SpecTyping == InitReal /\ [][NextTyping]_vars

\* ================================================================ claims
\* the commit of Focus::Input: the Enter key handled with the input focused
CommitText == Trim(input)
CommitMessage == UiMessage(Unwrap(current_contact).num, CommitText)
\* the trimmed text passes the assertion of the commit
CommitFits == ByteLen(CommitText) <= MaxInputBytes

\* C1: with Focus = Input, a commit whose trimmed text t is non-empty, with a
\* contact c selected and room in the outbound channel, enqueues exactly one
\* SendMessage{to: c, text: t}, appends t to the conversation log exactly
\* once, and leaves the input buffer empty.
C1_CommitSendsAndClears ==
    [][(/\ InputEnter
        /\ CommitText # << >>
        /\ IsSome(current_contact)
        /\ CanSend(ui_chan, UiCapacity, RadioGone))
       => (/\ ui_chan' = Append(ui_chan, CommitMessage)
           /\ current_conversation' = Append(current_conversation, CommitText)
           /\ input' = << >>)]_vars

\* C1 holds of every commit whose trimmed text is within the limit: the
\* commits that break it are those the assertion of tui.rs:158 stops (C5).
C1_WithinLimit ==
    [][(/\ InputEnter
        /\ CommitFits
        /\ CommitText # << >>
        /\ IsSome(current_contact)
        /\ CanSend(ui_chan, UiCapacity, RadioGone))
       => (/\ ui_chan' = Append(ui_chan, CommitMessage)
           /\ current_conversation' = Append(current_conversation, CommitText)
           /\ input' = << >>)]_vars

\* C2: with Focus = Input and no contact selected, a commit enqueues nothing,
\* leaves the conversation log unchanged and clears the input buffer, for
\* every buffer content.
C2_NoContactCommitClears ==
    [][(InputEnter /\ current_contact = None)
       => (/\ ui_chan' = ui_chan
           /\ current_conversation' = current_conversation
           /\ input' = << >>)]_vars

\* C2 holds of every commit whose trimmed text is within the limit (see C5).
C2_WithinLimit ==
    [][(InputEnter /\ CommitFits /\ current_contact = None)
       => (/\ ui_chan' = ui_chan
           /\ current_conversation' = current_conversation
           /\ input' = << >>)]_vars

\* C3 (as claimed): with Focus = Input, non-empty trimmed text and a selected
\* contact, a commit appends the trimmed text to the conversation log even
\* when the enqueue fails because the outbound channel is full or closed.
\* Stated of the commits that pass the assertion, so that what refutes it is
\* the dropped message and not the failed assertion of C5.
C3_EchoEvenIfDropped ==
    [][(/\ InputEnter
        /\ CommitFits
        /\ CommitText # << >>
        /\ IsSome(current_contact)
        /\ ~CanSend(ui_chan, UiCapacity, RadioGone))
       => current_conversation' = Append(current_conversation, CommitText)]_vars

\* C3 (amended): with Focus = Input, non-empty trimmed text and a selected
\* contact, a commit appends the trimmed text to the conversation log only
\* when the enqueue succeeded, and then together with the enqueued
\* SendMessage; when the enqueue fails because the outbound channel is full
\* or closed, the log is left unchanged.
C3_EchoOnlyIfSent ==
    [][(/\ InputEnter
        /\ CommitText # << >>
        /\ IsSome(current_contact))
       => (/\ current_conversation' # current_conversation
              => (/\ CanSend(ui_chan, UiCapacity, RadioGone)
                  /\ ui_chan' = Append(ui_chan, CommitMessage)
                  /\ current_conversation' = Append(current_conversation, CommitText))
           /\ ~CanSend(ui_chan, UiCapacity, RadioGone)
              => (/\ current_conversation' = current_conversation
                  /\ ui_chan' = ui_chan))]_vars

\* a commit of sendable text was dropped: the channel was full, or closed
C3_Witness ==
    /\ lastOp = "input:enter:dropped"
    /\ Len(ui_chan) = UiCapacity \/ RadioGone

\* C4: after every commit with Focus = Input the input buffer is empty, in
\* all cases.
C4_CommitAlwaysClears ==
    [][InputEnter => input' = << >>]_vars

\* C4 holds of every commit whose trimmed text is within the limit (see C5).
C4_WithinLimit ==
    [][(InputEnter /\ CommitFits) => input' = << >>]_vars

\* C5: in every reachable state the input buffer is at most 237 bytes long
\* (here MaxInputBytes), also with characters of more than one byte, so the
\* assertion of the commit never fails.
C5_InputWithinLimit ==
    /\ ByteLen(input) <= MaxInputBytes
    /\ lastOp # "input:enter:assert"

\* C6: with Focus = Input, a character key pressed while the input buffer is
\* already 237 bytes long (here MaxInputBytes) leaves the buffer unchanged,
\* and no error is raised.
C6_FullBufferRejectsChar ==
    [][((\E c \in Chars : InputChar(c)) /\ ByteLen(input) = MaxInputBytes)
       => (input' = input /\ pc' = "draw")]_vars

C6_Witness ==
    /\ lastOp = "input:char:rejected"
    /\ ByteLen(input) = MaxInputBytes

\* the identifiers of a sequence of peers
Nums(view) == {view[i].num : i \in 1..Len(view)}

\* C7: after any sequence of PeerAvailable events applied by the tick update,
\* the sorted view of the directory is strictly ascending by identifier and
\* holds exactly the identifiers received so far.
C7_SortedViewAscending ==
    LET view == get_sorted_nodes(nodes)
    IN  /\ \A i, j \in 1..Len(view) : i < j => view[i].num < view[j].num
        /\ Nums(view) = received
        /\ Len(view) = Cardinality(received)

C7_Witness ==
    /\ Cardinality(received) >= 2
    /\ Len(get_sorted_nodes(nodes)) >= 2

\* every PeerAvailable record the transports of the model can announce
Records == {NodeInfo(n, u) : n \in NodeIds, u \in Users} \cup {mock_node}

\* C8: applying the same PeerAvailable(id, record) twice in a row leaves the
\* directory equal to the directory after applying it once, for every
\* reachable directory and every record.
C8_UpsertIdempotent ==
    \A r \in Records :
        LET once == ApplyEvent(UpdateState, NodeAvailable(r))
            twice == ApplyEvent(once, NodeAvailable(r))
        IN  /\ twice.nodes = once.nodes
            /\ once.nodes[r.num] = r
            /\ upsert_node(upsert_node(nodes, r), r) = upsert_node(nodes, r)

\* the update has applied one NodeAvailable twice in a row
C8_Witness ==
    /\ lastOp = "update:same_peer_again"
    /\ IsSome(lastEvent)
    /\ nodes[Unwrap(lastEvent).node_info.num] = Unwrap(lastEvent).node_info

\* C9: whenever a PeerAvailable event is applied while the directory is
\* empty, the selection cursor afterwards is index 0 and resolves to the
\* first element of the sorted directory.
C9_FirstPeerSelectsFirst ==
    lastOp = "update:first_peer"
        => /\ selected = Some(0)
           /\ NodeAt(nodes, selected) = Some(get_sorted_nodes(nodes)[1])

C9_Witness ==
    /\ lastOp = "update:first_peer"
    /\ Len(get_sorted_nodes(nodes)) >= 1

\* the peer the selection cursor resolves to through the sorted view
Resolved == NodeAt(nodes, selected)

\* C10: if the selection cursor resolves to peer identifier k, applying a
\* PeerAvailable event for an identifier other than k leaves the cursor
\* resolving to k, also when the new identifier is smaller than k.
C10_SelectionKeepsIdentity ==
    [][(/\ UpdateRecv
        /\ IsSome(Resolved)
        /\ Head(mesh_chan).type = "NodeAvailable"
        /\ Head(mesh_chan).node_info.num # Unwrap(Resolved).num)
       => (/\ IsSome(Resolved')
           /\ Unwrap(Resolved').num = Unwrap(Resolved).num)]_vars

\* the number of peers of the directory, and whether the cursor is one of its
\* positions
NumPeers == Len(get_sorted_nodes(nodes))
CursorValid(sel) == IsSome(sel) /\ Unwrap(sel) < NumPeers

Saturated(key, k, n) ==
    IF key = "next" THEN (IF k < n - 1 THEN k + 1 ELSE k)
    ELSE (IF k > 0 THEN k - 1 ELSE k)

C13_CommitTakesPeerAtCursor ==
    [][NodeListEnter =>
        LET view == SortByNum(Values(nodes))
        IN  current_contact' =
                IF IsSome(selected) /\ Unwrap(selected) < Len(view)
                THEN Some(view[Unwrap(selected) + 1])
                ELSE current_contact]_vars

\* the commit took the second peer of a directory of two
C13_Witness ==
    /\ lastOp = "nodelist:enter"
    /\ selected = Some(1)
    /\ NumPeers >= 2
    /\ IsSome(current_contact)
    /\ Unwrap(current_contact).num = get_sorted_nodes(nodes)[2].num
    /\ \A n \in DOMAIN nodes : n <= Unwrap(current_contact).num

\* C14: after the Router processes two own-identity frames carrying different
\* node identifiers, the Router is still running and its SelfIdentity equals
\* the identifier of the first frame: the second assignment is ignored, not
\* applied and not fatal.
C14_SecondIdentityIgnored ==
    [][\A n \in NodeIds :
        (FrameMyInfo(n) /\ IsSome(node_num) /\ Unwrap(node_num) # n)
            => (radio' = "running" /\ node_num' = node_num)]_vars

\* C15: when the Router receives a frame whose payload variant is absent, it
\* emits no event, leaves its state unchanged and keeps processing the frames
\* that follow; the process does not crash.
C15_AbsentPayloadDiscarded ==
    [][FrameNone => (/\ radio' = "running"
                     /\ mesh_chan' = mesh_chan
                     /\ node_num' = node_num
                     /\ user' = user)]_vars

\* C16: for every inbound frame whose payload variant is a text message from
\* node n with text t, the Router emits MessageReceived{from: n, text: t}
\* toward the session when the inbound channel has room.
C16_TextMessageForwarded ==
    [][\A n \in NodeIds, t \in PacketTexts :
        (FramePacket(n, t) /\ CanSend(mesh_chan, MeshCapacity, AppGone))
            => mesh_chan' = Append(mesh_chan, MeshMessage(n, t))]_vars

\* C17: for every peer-info frame, the Router emits exactly one PeerAvailable
\* for that frame's identifier when the inbound channel has room, whether or
\* not the identifier equals SelfIdentity and whether or not SelfIdentity is
\* set yet; the self display name is captured only when the identifier
\* equals an already-set SelfIdentity.
C17_PeerInfoAlwaysAnnounced ==
    [][\A n \in NodeIds, u \in Users :
        FrameNodeInfo(NodeInfo(n, u))
            => /\ CanSend(mesh_chan, MeshCapacity, AppGone)
                    => mesh_chan' = Append(mesh_chan, NodeAvailable(NodeInfo(n, u)))
               /\ ~CanSend(mesh_chan, MeshCapacity, AppGone)
                    => mesh_chan' = mesh_chan
               /\ user' = IF node_num = Some(n) THEN u ELSE user
               /\ node_num' = node_num
               /\ radio' = radio]_vars

\* the peer-info frame of the node itself was handled after its own-identity
\* frame: its name was captured and its PeerAvailable queued
C17_Witness ==
    /\ IsSome(lastFrame)
    /\ Unwrap(lastFrame).variant = "NodeInfo"
    /\ Unwrap(lastFrame).sent = "queued"
    /\ node_num = Some(Unwrap(lastFrame).payload.num)
    /\ IsSome(user)
    /\ user = Unwrap(lastFrame).payload.user
    /\ mesh_chan # << >>
    /\ mesh_chan[Len(mesh_chan)] = NodeAvailable(Unwrap(lastFrame).payload)

\* C18: the Router emits at most one MeshEvent per inbound frame, and for
\* every payload variant other than own-identity, peer-info and text-message
\* it emits no event and leaves SelfIdentity and the captured self name
\* unchanged.
C18_AtMostOneEventPerFrame ==
    [][/\ FrameStep
            => \/ mesh_chan' = mesh_chan
               \/ /\ Len(mesh_chan') = Len(mesh_chan) + 1
                  /\ SubSeq(mesh_chan', 1, Len(mesh_chan)) = mesh_chan
       /\ \A v \in IgnoredVariants :
            FrameIgnored(v) => /\ mesh_chan' = mesh_chan
                               /\ node_num' = node_num
                               /\ user' = user
                               /\ radio' = radio]_vars

\* a frame of an ignored variant was handled by a Router that knows its
\* identity and its name, and has kept both
C18_Witness ==
    /\ IsSome(lastFrame)
    /\ Unwrap(lastFrame).variant = "ignored"
    /\ IsSome(node_num)
    /\ radio = "running"
    /\ frames = MaxFrames

\* C19: no send on either cross-worker channel ever blocks its sender: when
\* the channel is at capacity the event is dropped, the channel never holds
\* more than its capacity, and the sender continues; for every sender of
\* MeshEvents in the radio worker, real and mock, and for the session's
\* enqueue, also while the other side is paused.
C19_NoSenderBlocks ==
    /\ Len(mesh_chan) <= MeshCapacity
    /\ Len(ui_chan) <= UiCapacity
    /\ ~(/\ radio = "mock_start"
          /\ ~AppGone
          /\ Len(mesh_chan) >= MeshCapacity)
    /\ ~(/\ radio = "running"
          /\ IsSome(pending)
          /\ ~AppGone
          /\ Len(mesh_chan) >= MeshCapacity)

\* C20 (as claimed): starting from Focus = None, six consecutive 'advance'
\* commands leave Focus = NodeList.
C20_SixAdvancesReachNodeList ==
    tabs = 6 => focus = Some("NodeList")

\* C20 (amended): starting from Focus = None, six consecutive 'advance'
\* commands leave Focus = Input; Focus is NodeList after one and after four
\* consecutive 'advance' commands (the ring is NodeList, Conversation, Input).
C20_SixAdvancesReachInput ==
    /\ tabs = 6 => focus = Some("Input")
    /\ tabs \in {1, 4} => focus = Some("NodeList")
    /\ tabs = 0 => focus = None

\* six Tab keys have been handled in a row since the focus was None
C20_Witness ==
    /\ tabs = 6
    /\ focus = Some("Input")

\* the focus ring of types.rs
RingFocus == {Some("NodeList"), Some("Conversation"), Some("Input")}

\* C21: 'retreat' is the inverse permutation of 'advance' on the focus ring:
\* for every ring focus f, retreat(advance(f)) = f and advance(retreat(f)) = f.
C21_RetreatInvertsAdvance ==
    [][/\ \A f \in RingFocus : /\ BackTabTarget(TabTarget(f)) = f
                                /\ TabTarget(BackTabTarget(f)) = f
                                /\ TabTarget(f) \in RingFocus
                                /\ BackTabTarget(f) \in RingFocus
       /\ (KeyTab /\ IsSome(focus)) => BackTabTarget(focus') = focus
       /\ (KeyBackTab /\ IsSome(focus)) => TabTarget(focus') = focus]_vars

\* 'retreat' has taken the focus from NodeList to Input, from where 'advance'
\* leads back to NodeList
C21_Witness ==
    /\ lastOp = "key:backtab"
    /\ focus = Some("Input")
    /\ TabTarget(focus) = Some("NodeList")

\* C22: from Focus = None, 'advance' and 'retreat' each produce the Focus
\* they would produce from the ring position immediately before NodeList
\* (the last ring element, Input): advance yields NodeList and retreat yields
\* the element two positions before NodeList.
C22_NoneActsAsLastRingElement ==
    [][/\ (KeyTab /\ focus = None)
            => (focus' = TabTarget(Some("Input")) /\ focus' = Some("NodeList"))
       /\ (KeyBackTab /\ focus = None)
            => (/\ focus' = BackTabTarget(Some("Input"))
                /\ focus' = BackTabTarget(BackTabTarget(Some("NodeList"))))]_vars

\* C23: the 'release' command sets Focus to None from every focus state, and
\* Focus = None is reached only in the initial state or by 'release'; no
\* other key and no inbound event sets Focus to None.
C23_OnlyReleaseClearsFocus ==
    [][/\ KeyEsc => focus' = None
       /\ (focus' = None /\ focus # None) => KeyEsc
       /\ (KeyTab \/ KeyBackTab) => focus' # None]_vars

\* 'release' was the last key, after the focus had been on the node list for
\* a commit
C23_Witness ==
    /\ lastOp = "key:esc"
    /\ focus = None
    /\ IsSome(current_contact)

\* C24: the session loop ends on the quit key if and only if Focus = None
\* when the key is handled: with Focus = NodeList or Conversation the quit
\* key changes nothing, and with Focus = Input it is handled as an ordinary
\* character of the input buffer.
C24_QuitOnlyWithoutFocus ==
    [][/\ Quit => (focus = None /\ pc' = "done")
       /\ (pc' = "done" /\ pc # "done") => (Quit /\ focus = None)
       /\ QuitKeyIgnored
            => (/\ pc' = "draw"
                /\ UNCHANGED <<nodes, input, focus, selected, current_contact,
                               state, current_conversation, chan_vars>>)
       /\ InputChar("q")
            => (/\ pc' = "draw"
                /\ focus' = focus
                /\ ByteLen(input) < MaxInputBytes => input' = Append(input, "q")
                /\ UNCHANGED <<nodes, selected, current_contact, state,
                               current_conversation, chan_vars>>)]_vars

\* the quit key has ended the loop, after it had been typed into the input
\* buffer while the input was focused
C24_Witness ==
    /\ pc = "done"
    /\ lastOp = "quit"
    /\ focus = None
    /\ input = <<"q">>

\* whether sequence p is the beginning of sequence q
IsPrefix(p, q) == Len(p) <= Len(q) /\ SubSeq(q, 1, Len(p)) = p

\* the texts of the Message events of a sequence of MeshEvents, in order
RECURSIVE MessageTexts(_)
MessageTexts(events) ==
    IF events = << >> THEN << >>
    ELSE (IF Head(events).type = "Message" THEN <<Head(events).message>> ELSE << >>)
         \o MessageTexts(Tail(events))

\* the last n elements of a sequence
LastN(q, n) == SubSeq(q, Len(q) - n + 1, Len(q))

\* C25: each tick update applies every MeshEvent that is in the inbound
\* channel when the tick starts, in the order the events were enqueued:
\* after the update none of them remains queued, and messages appear in the
\* conversation log in enqueue order, with no event applied twice.
C25_UpdateDrainsInOrder ==
    [][/\ pc = "update"
            => /\ IsPrefix(tickQueue, applied \o mesh_chan)
               /\ Len(MessageTexts(applied)) <= Len(current_conversation)
               /\ LastN(current_conversation, Len(MessageTexts(applied)))
                    = MessageTexts(applied)
       /\ UpdateRecv
            => /\ applied' = Append(applied, Head(mesh_chan))
               /\ mesh_chan' = Tail(mesh_chan)
       /\ UpdateDone
            => /\ mesh_chan = << >>
               /\ IsPrefix(tickQueue, applied)]_vars

\* the update has applied the two events that were queued when the tick
\* started, a peer and then a message, and nothing is left in the channel
C25_Witness ==
    /\ pc = "update"
    /\ Len(tickQueue) >= 2
    /\ applied = tickQueue
    /\ mesh_chan = << >>
    /\ MessageTexts(applied) # << >>
    /\ current_conversation # << >>

\* C26: the radio worker's loop terminates with a success result once both
\* the inbound frame stream has ended and the UiEvent channel is closed, and
\* it does not terminate while at least one of the two sources can still
\* yield an item.
C26_EndsExactlyWhenExhausted ==
    /\ (radio = "running" /\ mode = "real" /\ stream = "ended" /\ UiSourceEnded)
        => ENABLED RealExit
    /\ RadioGone => (stream # "open" /\ UiSourceEnded)

\* C26 holds of the success result of the real transport's worker: it
\* returns Ok(()) only with both sources exhausted. The worker ends earlier
\* by the panics of C14 and C15.
C26_RealSuccessOnlyWhenExhausted ==
    (mode = "real" /\ radio = "ended") => (stream = "ended" /\ UiSourceEnded)

\* C26 does not hold of the mock worker's success result in this form: the
\* mock worker returns Ok(()) when a hello message finds the session gone,
\* whatever the UiEvent channel still holds.
C26_MockSuccessOnlyWhenExhausted ==
    (mode = "mock" /\ radio = "ended") => UiSourceEnded

\* C27: a peer whose display name is absent can be announced, listed and
\* committed as the current contact without terminating the session: in
\* every reachable state the session's redraw completes.
C27_RedrawAlwaysCompletes ==
    /\ lastOp # "draw:panic"
    /\ (pc = "draw" /\ IsSome(current_contact)) => ~DrawPanics

\* C27 holds until such a peer is committed: announced and listed, with no
\* contact chosen, it is drawn with the placeholder of tui.rs:256.
C27_ListedWithoutName ==
    current_contact = None => ~DrawPanics

\* a step in which the session handles a key
KeyStep == pc = "poll" /\ pc' # "poll"

\* C28: key handling is scoped by Focus: navigation keys change the selection
\* cursor and commit changes the current contact only when Focus = NodeList;
\* character, backspace and commit keys change the input buffer, the
\* conversation log and the outbound channel only when Focus = Input; with
\* Focus = None no key other than advance, retreat and quit changes any
\* session state.
C28_KeysScopedByFocus ==
    [][/\ (KeyStep /\ (selected' # selected \/ current_contact' # current_contact))
            => focus = Some("NodeList")
       /\ (KeyStep /\ (\/ input' # input
                        \/ current_conversation' # current_conversation
                        \/ ui_chan' # ui_chan))
            => focus = Some("Input")
       /\ (KeyStep /\ focus = None /\ ~KeyTab /\ ~KeyBackTab /\ ~Quit)
            => UNCHANGED <<nodes, input, focus, selected, current_contact, state,
                           current_conversation, chan_vars>>
       /\ KeyStep => UNCHANGED <<nodes, state, mesh_chan>>]_vars

\* a commit with the node list focused has chosen a contact and has left the
\* text typed earlier in the input buffer
C28_Witness ==
    /\ lastOp = "nodelist:enter"
    /\ focus = Some("NodeList")
    /\ IsSome(current_contact)
    /\ input # << >>

\* C29: whenever a current contact is set, its identifier is a key of the
\* peer directory and the contact equals the directory's current record for
\* that identifier, also after later PeerAvailable events that update that
\* identifier's record.
C29_ContactIsDirectoryRecord ==
    IsSome(current_contact)
        => /\ Unwrap(current_contact).num \in DOMAIN nodes
           /\ nodes[Unwrap(current_contact).num] = Unwrap(current_contact)

\* C29 holds of the identifier: the contact's identifier stays a key of the
\* directory, which never loses a peer.
C29_ContactIdInDirectory ==
    IsSome(current_contact) => Unwrap(current_contact).num \in DOMAIN nodes

\* C30: every SendMessage that is ever in the outbound channel carries text
\* that is non-empty, has no leading or trailing whitespace and is at most
\* 237 bytes long (here MaxInputBytes), and is addressed to the identifier of
\* the contact that was selected at the moment of the commit that produced it.
C30_SendMessageWellFormed ==
    [][/\ \A i \in 1..Len(ui_chan') :
            LET t == ui_chan'[i].message
            IN  /\ t # << >>
                /\ ~IsWhitespace(t[1])
                /\ ~IsWhitespace(t[Len(t)])
                /\ ByteLen(t) <= MaxInputBytes
       /\ Len(ui_chan') > Len(ui_chan)
            => /\ InputEnter
               /\ IsSome(current_contact)
               /\ Len(ui_chan') = Len(ui_chan) + 1
               /\ SubSeq(ui_chan', 1, Len(ui_chan)) = ui_chan
               /\ ui_chan'[Len(ui_chan')].node_id = Unwrap(current_contact).num
               /\ current_contact' = current_contact]_vars

\* a commit has queued a text as long as the limit allows for the contact
C30_Witness ==
    /\ lastOp = "input:enter:sent"
    /\ ui_chan # << >>
    /\ IsSome(current_contact)
    /\ ui_chan[Len(ui_chan)].node_id = Unwrap(current_contact).num
    /\ ByteLen(ui_chan[Len(ui_chan)].message) = MaxInputBytes

====
